---- MODULE Spec2Model ----
(***************************************************************************)
(* NIQE / IL-NIQE scoring pipeline of pyiqa/archs/niqe_arch.py.            *)
(*                                                                         *)
(* The pipeline is modelled step by step for a batch of images: input      *)
(* assertion, optional resize, crop to block multiples, and for each of    *)
(* the two pyramid scales: composite map, block loop, stack, downsample;   *)
(* then concatenation and the statistical comparator.                      *)
(*                                                                         *)
(* Shapes (heights, widths, channel counts, feature lengths, reference     *)
(* model dimensions) are exact.  Sample values are abstracted per block:   *)
(* every block of an image carries one natural number, 0 meaning that the  *)
(* block is flat (zero variance), and the statistic an estimator returns   *)
(* for a region is the sum of the numbers of the blocks the region covers, *)
(* NaN when all of them are flat.  The reduced feature space is            *)
(* one-dimensional, so covariances and distances are exact rationals.      *)
(***************************************************************************)
EXTENDS Integers, Sequences, FiniteSets, TLC

\* ---------------------------------------------------------------- bounds
MaxDim == 7        \* largest height/width of an image that is not resized
MaxBatch == 2      \* largest batch size
MaxVar == 2        \* number of leading blocks whose content varies
MaxVal == 2        \* largest block content value (0 = flat block)
MaxRows == 3       \* largest number of rows of a directly drawn feature matrix
MaxOutlierRows == 2  \* largest number of rows of a feature matrix with outliers
MaxCalls == 2      \* largest number of forward calls on a metric instance
MaxShift == 2      \* largest translation of the comparator's operands

\* ------------------------------------------------------ program constants
normalizedWidth == 524
infConst == 10000
scales == 3
orientations == 4
default_block_size == 84
niqe_block_size == 96
reducedDim == 430

SmallBlockSizes == {2, 3}

\* crop borders and image sizes of the forward calls
CropBorders == {0, 3}
ImageSizes == {100, 200}
LargeBlockSizes == {default_block_size, normalizedWidth \div 2, normalizedWidth \div 2 + 1}

\* ---------------------------------------------------------------- helpers
Min(a, b) == IF a < b THEN a ELSE b
Max(a, b) == IF a > b THEN a ELSE b
Abs(a) == IF a < 0 THEN -a ELSE a

RECURSIVE GCD(_, _)
GCD(a, b) == IF b = 0 THEN a ELSE GCD(b, a % b)

\* a rational number n/d, d > 0, in lowest terms
Frac(n, d) ==
  LET g == GCD(Abs(n), Abs(d))
      s == IF d < 0 THEN -1 ELSE 1
  IN  IF g = 0 THEN <<0, 1>> ELSE <<(s * n) \div g, (s * d) \div g>>

\* sum of a sequence of integers, by halves
RECURSIVE SumSeq(_)
SumSeq(s) ==
  IF Len(s) = 0 THEN 0
  ELSE IF Len(s) = 1 THEN s[1]
  ELSE LET mid == Len(s) \div 2
       IN  SumSeq(SubSeq(s, 1, mid)) + SumSeq(SubSeq(s, mid + 1, Len(s)))

RECURSIVE Flatten(_)
Flatten(ss) == IF ss = <<>> THEN <<>> ELSE Head(ss) \o Flatten(Tail(ss))

SeqMap(Op(_), s) == [k \in 1..Len(s) |-> Op(s[k])]

\* one scalar feature: NaN, or a value
NanRow == [nan |-> TRUE, v |-> 0]
Val(x) == [nan |-> FALSE, v |-> x]

VARIABLES
  variant,        \* "niqe" or "ilniqe"
  ndim,           \* number of dimensions of the image tensor
  resize,         \* ilniqe's resize argument
  inH, inW,       \* height and width the caller passed
  img_c,          \* number of channels of the image
  block_size_h, block_size_w,
  content,        \* per image: block number in loop order -> content value
  model,          \* reference model values (reduced space is 1-D)
  shp,            \* reference model dimensions
  pc,             \* position in niqe / ilniqe
  h, w,           \* dimensions of the maintained image buffers
  num_block_h, num_block_w,
  scale,
  mapH, mapW,     \* dimensions of the composite map of the current scale
  idx_h, idx_w,   \* block loop counters
  feat,           \* features of the blocks of the current scale
  distparam,      \* per-scale stacked features
  featmat,        \* concatenated feature matrix
  call,           \* the last call of compute_feature
  result,         \* outcome of the scoring call
  downs,          \* times the maintained buffers were downsampled in this call
  banks,          \* per scale: times the log-Gabor filter bank was constructed
  metric,         \* the metric instance a forward call goes through, if any
  X,              \* the tensor the caller passes to forward
  loads,          \* times the model file was read (scipy.io.loadmat)
  calls,          \* forward calls made on the metric instance
  img_range       \* intensity scale of img as a power of 255: 0 is [0,1], 1 is [0,255]

vars == <<variant, ndim, resize, inH, inW, img_c, block_size_h, block_size_w, content,
          model, shp, pc, h, w, num_block_h, num_block_w, scale, mapH, mapW,
          idx_h, idx_w, feat, distparam, featmat, call, result, downs, banks,
          metric, X, loads, calls, img_range>>

\* what belongs to the metric instance and its caller
host == <<metric, X, loads, calls>>

\* what a call records of its own course
history == <<downs, banks>>

inputs == <<variant, ndim, resize, inH, inW, img_c, block_size_h, block_size_w,
            content, model, shp>>

b == Len(content)

\* ---------------------------------------------------------------- geometry
\* number of channels a Python slice lo:hi takes from c channels
SliceLen(c, lo, hi) == Max(0, Min(c, hi) - Min(c, lo))

\* mutant of block_pos: the block size, not the position, divided by the scale
block_pos_scaled_size(ih, iw, s) ==
  << ih * (block_size_h \div s), (ih + 1) * (block_size_h \div s),
     iw * (block_size_w \div s), (iw + 1) * (block_size_w \div s) >>

\* block_pos = [row start, row stop, column start, column stop]
block_pos(ih, iw, s) ==
  << (ih * block_size_h) \div s, ((ih + 1) * block_size_h) \div s,
     (iw * block_size_w) \div s, ((iw + 1) * block_size_w) \div s >>

\* tensor[..., p1:p2, p3:p4] on a map of mh rows and mw columns
SliceRegion(p, mh, mw) ==
  << Min(p[1], mh), Max(Min(p[1], mh), Min(p[2], mh)),
     Min(p[3], mw), Max(Min(p[3], mw), Min(p[4], mw)) >>

WholeMap(mh, mw) == <<0, mh, 0, mw>>

RegionH(r) == r[2] - r[1]
RegionW(r) == r[4] - r[3]

Intersects(r, q) ==
  /\ Max(r[1], q[1]) < Min(r[2], q[2])
  /\ Max(r[3], q[3]) < Min(r[4], q[4])

Blocks == (0..(num_block_h - 1)) \X (0..(num_block_w - 1))

\* position of block (ih, iw) in the loop order: idx_w outer, idx_h inner
LoopNumber(ih, iw) == iw * num_block_h + ih

ContentOf(c, i, ih, iw) ==
  IF LoopNumber(ih, iw) < MaxVar THEN c[i][LoopNumber(ih, iw)] ELSE 1

RECURSIVE SumContent(_, _, _)
SumContent(c, i, S) ==
  IF S = {} THEN 0
  ELSE LET x == CHOOSE y \in S : TRUE
       IN  ContentOf(c, i, x[1], x[2]) + SumContent(c, i, S \ {x})

\* the blocks whose samples lie in region r of the map of scale s
Covered(r, s) ==
  {x \in Blocks : Intersects(SliceRegion(block_pos(x[1], x[2], s), mapH, mapW), r)}

\* statistic of the samples of region r of the maps built from the images c,
\* per image of the batch: NaN for a region of zero variance
RegionStatOf(c, r, s) ==
  [i \in 1..Len(c) |->
     LET t == SumContent(c, i, Covered(r, s))
     IN  IF t = 0 THEN NanRow ELSE Val(t)]

RegionStat(r, s) == RegionStatOf(content, r, s)

\* ------------------------------------------------------- compute_feature
Truthy(list) == Len(list) # 0

\* niqe takes a gray or Y image, ilniqe an image of three colour channels
ChannelsOf(v) == IF v = "niqe" THEN 1 ELSE 3

ImgChannels == img_c

\* mutant of ChannelGroups: one gradient magnitude per filter response pair
ChannelGroupsOneMagnitude ==
  << 1, 3, 3, 6, 2 * scales * orientations, 4 * scales * orientations,
     scales * orientations >>

\* the channel groups ilniqe concatenates into compositeMat, in order:
\* struct_dis, GM, Intensity/BY/RG, Ixy, logResponse, partialDer, GM
ChannelGroups ==
  << 1, 3, 3, 6, 2 * scales * orientations, 4 * scales * orientations,
     2 * scales * orientations >>

\* channels of the composite map: niqe normalises the image itself
CompositeChannels ==
  IF variant = "niqe" THEN ImgChannels ELSE SumSeq(ChannelGroups)

\* the channel ranges compute_feature reads: block[:, [0]], block[:, 1:4],
\* block[:, 4:7], block[:, 7:85], block[:, 85:109]
FeatureSlices == << <<0, 1>>, <<1, 4>>, <<4, 7>>, <<7, 85>>, <<85, 109>> >>

\* channels the k-th range takes from a block of blockCh channels
SliceOf(blockCh, k) == SliceLen(blockCh, FeatureSlices[k][1], FeatureSlices[k][2])

\* channels = 4 - 1, channels = 85 - 7, channels = 109 - 85
NominalChannels(k) == FeatureSlices[k][2] - FeatureSlices[k][1]

\* number of features each of the steps (a) to (e) appends
StepFeatures(blockCh) ==
  << 2 + 4 * 4, 2 * NominalChannels(2), 2 * SliceOf(blockCh, 3),
     2 * NominalChannels(4), 2 * NominalChannels(5) >>

compute_feature(blockCh, hB, wB, ilniqeFlag, stat) ==
  LET n == hB * wB
      okB == (SliceOf(blockCh, 2) * n) % NominalChannels(2) = 0
      okD == SliceOf(blockCh, 4) * n = NominalChannels(4) * n
      okE == (SliceOf(blockCh, 5) * n) % NominalChannels(5) = 0
      err == ilniqeFlag /\ ~(okB /\ okD /\ okE)
      stepsRun == IF ~ilniqeFlag THEN <<"a">>
                  ELSE IF ~okB THEN <<"a", "b">>
                  ELSE IF ~okD THEN <<"a", "b", "c", "d">>
                  ELSE <<"a", "b", "c", "d", "e">>
      len == IF ~ilniqeFlag THEN StepFeatures(blockCh)[1]
             ELSE SumSeq(StepFeatures(blockCh))
  IN  [err |-> err, steps |-> stepsRun,
       len |-> IF err THEN 0 ELSE len,
       rows |-> IF err THEN <<>> ELSE stat]

NoCall == [made |-> FALSE, ih |-> 0, iw |-> 0, s |-> 0, pos |-> <<0, 0, 0, 0>>,
           region |-> <<0, 0, 0, 0>>, flag |-> FALSE, steps |-> <<>>,
           err |-> FALSE, len |-> 0]

\* the outcome of a call; shape is the shape of the returned tensor
Running == [status |-> "running", kind |-> "", score |-> <<>>, shape |-> <<>>]
Failed(kind) == [status |-> "error", kind |-> kind, score |-> <<>>, shape |-> <<>>]

NoBanks == [s \in 1..2 |-> 0]

\* a call of niqe / ilniqe that no metric instance made
NoMetric == [cls |-> "", given |-> FALSE, path |-> "", crop_border |-> 0,
             test_y_channel |-> FALSE]
NoImage == [n |-> 0, c |-> 0, H |-> 0, W |-> 0]

\* ------------------------------------------------------------ input sets
Variants == {"niqe", "ilniqe"}

\* block content of one image: f flat leading blocks, the others of texture t
ContentFamily ==
  {[k \in 0..(MaxVar - 1) |-> IF k < f THEN 0 ELSE t] : f \in 0..MaxVar, t \in 1..MaxVal}

DefaultContent == [k \in 0..(MaxVar - 1) |-> 1]

\* batches of up to MaxBatch images: the first two vary, the others are textured
Batches ==
  {[i \in 1..n |-> IF i = 1 THEN c1 ELSE IF i = 2 THEN c2 ELSE DefaultContent] :
     n \in 1..MaxBatch, c1 \in ContentFamily, c2 \in ContentFamily}

DefaultModel == [mu |-> 1, cov |-> 1, mean |-> 0, pv |-> 1]
RefModels == {DefaultModel, [mu |-> 0, cov |-> 0, mean |-> 1, pv |-> 2]}

\* width of the feature matrix each variant is meant to produce
SimpleWidth == 2 * compute_feature(1, 1, 1, FALSE, <<>>).len
RichWidth == 2 * compute_feature(109, 1, 1, TRUE, <<>>).len

MatchingShape(v) ==
  IF v = "niqe"
  THEN [mu |-> SimpleWidth, cov |-> SimpleWidth, mean |-> 0, pvr |-> 0, pvc |-> 0]
  ELSE [mu |-> reducedDim, cov |-> reducedDim, mean |-> RichWidth,
        pvr |-> RichWidth, pvc |-> reducedDim]

ShapeChoices(v) ==
  LET m == MatchingShape(v)
  IN  {m, [m EXCEPT !.mu = 1, !.cov = 1], [m EXCEPT !.mu = 1],
       [m EXCEPT !.mean = 1], [m EXCEPT !.pvr = SimpleWidth],
       [m EXCEPT !.mu = SimpleWidth + 1, !.cov = SimpleWidth + 1]}

InitControl ==
  /\ pc = "assert"
  /\ h = inH /\ w = inW
  /\ num_block_h = 0 /\ num_block_w = 0
  /\ scale = 0
  /\ mapH = 0 /\ mapW = 0
  /\ idx_h = 0 /\ idx_w = 0
  /\ feat = <<>>
  /\ distparam = <<>>
  /\ featmat = [width |-> 0, rows |-> <<>>]
  /\ call = NoCall
  /\ result = Running
  /\ downs = 0
  /\ banks = NoBanks

\* niqe / ilniqe called directly
InitDirectCall ==
  /\ metric = NoMetric
  /\ X = NoImage
  /\ loads = 0
  /\ calls = 0
  /\ img_range = 1

\* calls that differ in shape: dimensions, block sizes, resize, ndim
InitDims ==
  /\ variant \in Variants
  /\ img_c = ChannelsOf(variant)
  /\ ndim \in {3, 4}
  /\ resize \in IF variant = "ilniqe" THEN BOOLEAN ELSE {FALSE}
  /\ inH \in IF resize THEN {1, MaxDim} ELSE 1..MaxDim
  /\ inW \in IF resize THEN {1, MaxDim} ELSE 1..MaxDim
  /\ block_size_h \in IF resize THEN LargeBlockSizes ELSE SmallBlockSizes
  /\ block_size_w \in IF resize THEN LargeBlockSizes ELSE SmallBlockSizes
  /\ content = <<DefaultContent>>
  /\ model = DefaultModel
  /\ shp = MatchingShape(variant)

\* calls that differ in batch size and image content
InitContent ==
  /\ variant \in Variants
  /\ img_c = ChannelsOf(variant)
  /\ ndim = 4
  /\ resize = FALSE
  /\ \E d \in {<<2, 2>>, <<4, 2>>, <<6, 2>>, <<4, 4>>} : inH = d[1] /\ inW = d[2]
  /\ block_size_h = 2 /\ block_size_w = 2
  /\ content \in Batches
  /\ model \in RefModels
  /\ shp = MatchingShape(variant)

\* calls that differ in the dimensions of the reference model
InitShapes ==
  /\ variant \in Variants
  /\ img_c = ChannelsOf(variant)
  /\ ndim = 4
  /\ resize = FALSE
  /\ inH = 4 /\ inW = 4
  /\ block_size_h = 2 /\ block_size_w = 2
  /\ content = <<DefaultContent>>
  /\ model = DefaultModel
  /\ shp \in ShapeChoices(variant)

Init == (InitDims \/ InitContent \/ InitShapes) /\ InitControl /\ InitDirectCall

\* ------------------------------------------------------------- pipeline
\* assert img.ndim == 4
AssertNdim ==
  /\ pc = "assert"
  /\ IF ndim = 4
     THEN /\ pc' = IF variant = "ilniqe" THEN "resize" ELSE "crop"
          /\ result' = result
     ELSE /\ pc' = "error"
          /\ result' = Failed("assert")
  /\ UNCHANGED <<host, img_range, history, inputs, h, w, num_block_h, num_block_w, scale,
                 mapH, mapW, idx_h, idx_w, feat, distparam, featmat, call>>

\* ilniqe: if resize: img = imresize(img, sizes=(normalizedWidth, normalizedWidth))
ResizedDim(d) == IF resize THEN normalizedWidth ELSE d

ResizeStep ==
  /\ pc = "resize"
  /\ h' = ResizedDim(h)
  /\ w' = ResizedDim(w)
  /\ pc' = "crop"
  /\ UNCHANGED <<host, img_range, history, inputs, num_block_h, num_block_w, scale, mapH,
                 mapW, idx_h, idx_w, feat, distparam, featmat, call, result>>

\* num_block = math.floor(size / block_size)
NumBlocks(size, block_size) == size \div block_size

\* mutant of CroppedDim: the image padded up to the next block multiple
CroppedDimPadded(size, block_size) ==
  ((size + block_size - 1) \div block_size) * block_size

\* img[..., 0:num_block_h * block_size_h, 0:num_block_w * block_size_w]
CroppedDim(size, block_size) == Min(size, NumBlocks(size, block_size) * block_size)

\* ilniqe: O_img = img.permute(0, 2, 3, 1) @ ospace_weight.T, a 3 x 3 matrix
OpponentOk == variant = "niqe" \/ img_c = 3

CropStep ==
  /\ pc = "crop"
  /\ num_block_h' = NumBlocks(h, block_size_h)
  /\ num_block_w' = NumBlocks(w, block_size_w)
  /\ h' = CroppedDim(h, block_size_h)
  /\ w' = CroppedDim(w, block_size_w)
  /\ IF OpponentOk
     THEN pc' = "build" /\ result' = result
     ELSE pc' = "error" /\ result' = Failed("shape")
  /\ UNCHANGED <<host, img_range, history, inputs, scale, mapH, mapW, idx_h, idx_w, feat,
                 distparam, featmat, call>>

\* for scale in (1, 2): build the composite map of the scale from the
\* maintained buffers; all its channels share their spatial dimensions
\* ilniqe constructs the log-Gabor filters of the scale while it builds the map
FilterBanksBuilt == IF variant = "ilniqe" THEN 1 ELSE 0

BuildComposite ==
  /\ pc = "build"
  /\ scale' = scale + 1
  /\ banks' = [banks EXCEPT ![scale + 1] = @ + FilterBanksBuilt]
  /\ mapH' = h
  /\ mapW' = w
  /\ idx_h' = 0 /\ idx_w' = 0
  /\ feat' = <<>>
  /\ pc' = "extract"
  /\ UNCHANGED <<host, img_range, downs, inputs, h, w, num_block_h, num_block_w, distparam,
                 featmat, call, result>>

LoopDone == num_block_h = 0 \/ idx_w >= num_block_w

\* the tensor and the flag compute_feature receives for block_pos p:
\* niqe passes (img_normalized, block_pos), ilniqe passes (block, ilniqe=True)
BlockArg(p) ==
  IF variant = "niqe" THEN WholeMap(mapH, mapW) ELSE SliceRegion(p, mapH, mapW)

FlagArg(p) == IF variant = "niqe" THEN Truthy(p) ELSE TRUE

\* mutant of NextBlock: row index outer, column index inner
NextBlockRowOuter(ih, iw) ==
  IF iw + 1 < num_block_w THEN <<ih, iw + 1>>
  ELSE IF ih + 1 < num_block_h THEN <<ih + 1, 0>> ELSE <<0, num_block_w>>

\* the block after (ih, iw): for idx_w in range(..): for idx_h in range(..)
NextBlock(ih, iw) ==
  IF ih + 1 < num_block_h THEN <<ih + 1, iw>> ELSE <<0, iw + 1>>

\* one iteration of the block loop
ExtractBlock ==
  /\ pc = "extract"
  /\ ~LoopDone
  /\ LET p == block_pos(idx_h, idx_w, scale)
         region == BlockArg(p)
         r == compute_feature(CompositeChannels, RegionH(region), RegionW(region),
                              FlagArg(p), RegionStat(region, scale))
     IN  /\ call' = [made |-> TRUE, ih |-> idx_h, iw |-> idx_w, s |-> scale,
                     pos |-> p, region |-> region, flag |-> FlagArg(p),
                     steps |-> r.steps, err |-> r.err, len |-> r.len]
         /\ IF r.err
            THEN /\ pc' = "error"
                 /\ result' = Failed("internal")
                 /\ UNCHANGED <<feat, idx_h, idx_w>>
            ELSE /\ feat' = Append(feat, [len |-> r.len, rows |-> r.rows])
                 /\ idx_h' = NextBlock(idx_h, idx_w)[1]
                 /\ idx_w' = NextBlock(idx_h, idx_w)[2]
                 /\ UNCHANGED <<pc, result>>
  /\ UNCHANGED <<host, img_range, history, inputs, h, w, num_block_h, num_block_w, scale,
                 mapH, mapW, distparam, featmat>>

\* torch.stack(feat) with the batch axis first; an empty list raises
Stacked(f) ==
  [width |-> f[1].len,
   rows |-> [i \in 1..b |-> [k \in 1..Len(f) |-> f[k].rows[i]]]]

StackFeat ==
  /\ pc = "extract"
  /\ LoopDone
  /\ IF feat = <<>>
     THEN /\ pc' = "error"
          /\ result' = Failed("internal")
          /\ UNCHANGED distparam
     ELSE /\ distparam' = Append(distparam, Stacked(feat))
          /\ pc' = "down"
          /\ UNCHANGED result
  /\ UNCHANGED <<host, img_range, history, inputs, h, w, num_block_h, num_block_w, scale,
                 mapH, mapW, idx_h, idx_w, feat, featmat, call>>

\* mutant of Decimate: the samples 1, 3, 5, ... kept
DecimateOddPhase(n) == n \div 2

\* filterResult[..., ::2, ::2] keeps the samples 0, 2, 4, ...
Decimate(n) == (n + 1) \div 2

\* imresize(img / 255., scale=0.5, antialiasing=True)
ImresizeHalf(n) == (n + 1) \div 2

Downsampled(n) ==
  IF variant = "ilniqe" THEN Decimate(n)
  ELSE IF scale = 1 THEN ImresizeHalf(n) ELSE n

\* mutant of DownsampleCount: the buffers downsampled before and after the blocks
DownsampleCountTwice == IF variant = "ilniqe" \/ scale = 1 THEN 2 ELSE 0

\* ilniqe downsamples after each scale, niqe only if scale == 1
DownsampleCount == IF variant = "ilniqe" \/ scale = 1 THEN 1 ELSE 0

\* niqe: imresize(img / 255., ...) and then img * 255.; ilniqe filters and
\* decimates the buffers as they are
RangeAfterDownsample(r) ==
  IF variant = "niqe" /\ scale = 1 THEN (r - 1) + 1 ELSE r

DownsampleStep ==
  /\ pc = "down"
  /\ h' = Downsampled(h)
  /\ w' = Downsampled(w)
  /\ downs' = downs + DownsampleCount
  /\ img_range' = RangeAfterDownsample(img_range)
  /\ pc' = IF scale = 2 THEN "cat" ELSE "build"
  /\ UNCHANGED <<host, banks, inputs, num_block_h, num_block_w, scale, mapH, mapW,
                 idx_h, idx_w, feat, distparam, featmat, call, result>>

\* torch.cat(distparam, -1)
CatRow(x, y) == IF x.nan \/ y.nan THEN NanRow ELSE Val(x.v + y.v)

Concatenated(d) ==
  [width |-> d[1].width + d[2].width,
   rows |-> [i \in 1..b |->
              [k \in 1..Len(d[1].rows[i]) |-> CatRow(d[1].rows[i][k], d[2].rows[i][k])]]]

ConcatStep ==
  /\ pc = "cat"
  /\ featmat' = Concatenated(distparam)
  /\ pc' = "compare"
  /\ UNCHANGED <<host, img_range, history, inputs, h, w, num_block_h, num_block_w, scale,
                 mapH, mapW, idx_h, idx_w, feat, distparam, call, result>>

\* ------------------------------------------------------------ comparator
\* two sizes torch broadcasts against each other
Broadcastable(x, y) == x = y \/ x = 1 \/ y = 1

IsNum(r) == ~r.nan
NumValue(r) == r.v
Numbers(rows) == SeqMap(NumValue, SelectSeq(rows, IsNum))
Square(x) == x * x

\* sum of two rational numbers
AddQ(x, y) == Frac(x[1] * y[2] + y[1] * x[2], x[2] * y[2])

\* nanmean over the blocks: NaN entries removed, 0/0 when none is left
nanmean(rows) ==
  LET xs == Numbers(rows)
  IN  IF Len(xs) = 0 THEN [nan |-> TRUE, q |-> <<0, 1>>]
      ELSE [nan |-> FALSE, q |-> Frac(SumSeq(xs), Len(xs))]

\* torch_cov: unbiased sample covariance, factor 1 / (n - 1)
torch_cov(xs) ==
  LET n == Len(xs)
      sx == SumSeq(xs)
      sxx == SumSeq(SeqMap(Square, xs))
  IN  IF n = 1 THEN [err |-> TRUE, c |-> <<0, 1>>]
      ELSE IF n = 0 THEN [err |-> FALSE, c |-> <<0, 1>>]
      ELSE [err |-> FALSE, c |-> Frac(n * sxx - sx * sx, n * (n - 1))]

\* torch.linalg.pinv((cov_pris_param + cov_distparam) / 2)
invcov_param(c) ==
  LET half == Frac(model.cov * c[2] + c[1], 2 * c[2])
  IN  IF half[1] = 0 THEN <<0, 1>> ELSE Frac(half[2], half[1])

NanScore == [nan |-> TRUE, sq |-> <<0, 1>>]

\* a score is kept as the rational number that is its square:
\* inv * (num / den)^2, reduced at each step
Score(inv, num, den) ==
  LET r == Frac(num, den)
      x == Frac(inv[1], r[2] * r[2])
      y == Frac(r[1] * r[1], inv[2])
  IN  [nan |-> FALSE, sq |-> Frac(x[1] * y[1], x[2] * y[2])]

\* .squeeze() removes every dimension of size 1
Squeezed(shape) ==
  LET Kept(d) == d # 1
  IN  SelectSeq(shape, Kept)

\* the operands of the comparator after it has run: it reads them only
\* (transpose and unsqueeze are views, the arithmetic allocates its results)
ModelAfterCompareInPlace(m) == [m EXCEPT !.mean = m.mean + 1]

ModelAfterCompare(m) == m

\* --- direct mode (niqe) ---
NanToNum(r) == IF r.nan THEN 0 ELSE r.v

\* the rows that enter the sample covariance of image i
DirectCovRows(fm, i) == SeqMap(NanToNum, fm.rows[i])

\* sqrt(diff invcov diff^T) with diff = mu_pris_param - mu_distparam
DirectDistance(mu, m, inv) ==
  IF mu.nan THEN NanScore ELSE Score(inv, m * mu.q[2] - mu.q[1], mu.q[2])

DirectScore(fm, i) ==
  DirectDistance(nanmean(fm.rows[i]), model.mu,
                 invcov_param(torch_cov(DirectCovRows(fm, i)).c))

DirectShapesOk(fm) ==
  /\ Broadcastable(shp.cov, fm.width)
  /\ Broadcastable(shp.mu, fm.width)
  /\ Max(shp.mu, fm.width) = Max(shp.cov, fm.width)

DirectCompare(fm) ==
  IF \E i \in 1..Len(fm.rows) : torch_cov(DirectCovRows(fm, i)).err
  THEN Failed("zero_division")
  ELSE IF ~DirectShapesOk(fm) THEN Failed("shape")
  ELSE [status |-> "ok", kind |-> "",
        score |-> [i \in 1..Len(fm.rows) |-> DirectScore(fm, i)],
        shape |-> Squeezed(<<Len(fm.rows), 1, 1>>)]

\* --- projected mode (ilniqe) ---
\* mutant of Clip: the magnitude is clipped
ClipMagnitude(r) ==
  IF ~r.nan /\ r.v > infConst THEN Val(infConst)
  ELSE IF ~r.nan /\ r.v < -infConst THEN Val(-infConst) ELSE r

\* distparam[distparam > infConst] = infConst
Clip(r) == IF ~r.nan /\ r.v > infConst THEN Val(infConst) ELSE r

\* the assignment is in place: distparam holds the clipped values afterwards
ClippedInPlace(fm) ==
  [fm EXCEPT !.rows = [i \in 1..Len(fm.rows) |-> SeqMap(Clip, fm.rows[i])]]

\* principleVectors^T (distparam - meanOfSampleData)
Project(r) == IF r.nan THEN NanRow ELSE Val(model.pv * (r.v - model.mean))

ClipProject(r) == Project(Clip(r))

final_features(fm) == [i \in 1..Len(fm.rows) |-> SeqMap(ClipProject, fm.rows[i])]

\* final_features.masked_select(~nan_mask): the rows without NaN of the whole
\* batch, one after the other
MaskedSelect(ff) == Flatten([i \in 1..Len(ff) |-> Numbers(ff[i])])

\* .reshape(b, -1, feat_num) is possible when the batch size divides the count
ReshapeOk(ff) == Len(MaskedSelect(ff)) % Len(ff) = 0

\* the rows that enter the sample covariance of image i
final_features_nonan(ff, i) ==
  LET all == MaskedSelect(ff)
      n == Len(all) \div Len(ff)
  IN  SubSeq(all, (i - 1) * n + 1, i * n)

\* mutant of final_features_withmu: the NaN rows dropped
final_features_dropnan(rows, mu) ==
  [k \in 1..Len(Numbers(rows)) |-> <<Numbers(rows)[k], 1>>]

\* torch.where(isnan(final_features), mu_final_features, final_features),
\* as rational numbers
final_features_withmu(rows, mu) ==
  [k \in 1..Len(rows) |-> IF rows[k].nan THEN mu.q ELSE <<rows[k].v, 1>>]

\* mutant of diff: the reference mean left out
diff_unreferenced(x, m) == x

\* diff = final_features_withmu - mu_pris_param
diff(x, m) == x - m

\* | x - m | of a rational number x and an integer m
AbsDiffQ(x, m) == <<Abs(diff(x[1], m * x[2])), x[2]>>

\* sum over the blocks of | x - m |, by halves
RECURSIVE SumAbsDiff(_, _)
SumAbsDiff(qs, m) ==
  IF Len(qs) = 0 THEN <<0, 1>>
  ELSE IF Len(qs) = 1 THEN AbsDiffQ(qs[1], m)
  ELSE LET mid == Len(qs) \div 2
       IN  AddQ(SumAbsDiff(SubSeq(qs, 1, mid), m),
                SumAbsDiff(SubSeq(qs, mid + 1, Len(qs)), m))

\* torch.sqrt((diff invcov * diff).sum(-1)).mean(dim=1): with one reduced
\* feature, sqrt(inv) times the mean over the blocks of | diff |
ProjectedDistance(rows, m, inv) ==
  LET mu == nanmean(rows)
      filled == final_features_withmu(rows, mu)
      total == SumAbsDiff(filled, m)
  IN  IF mu.nan \/ Len(filled) = 0 THEN NanScore
      ELSE Score(inv, total[1], total[2] * Len(filled))

ProjectedScore(ff, i) ==
  ProjectedDistance(ff[i], model.mu,
                    invcov_param(torch_cov(final_features_nonan(ff, i)).c))

ProjectShapesOk(fm) ==
  /\ Broadcastable(fm.width, shp.mean)
  /\ shp.pvr = Max(fm.width, shp.mean)

DistanceShapesOk ==
  /\ Broadcastable(shp.cov, shp.pvc)
  /\ Broadcastable(shp.pvc, shp.mu)
  /\ Max(shp.pvc, shp.mu) = Max(shp.cov, shp.pvc)

ProjectedCompare(fm) ==
  LET ff == final_features(fm)
  IN  IF ~ProjectShapesOk(fm) THEN Failed("shape")
      ELSE IF ~ReshapeOk(ff) THEN Failed("internal")
      ELSE IF \E i \in 1..Len(ff) : torch_cov(final_features_nonan(ff, i)).err
      THEN Failed("zero_division")
      ELSE IF ~DistanceShapesOk THEN Failed("shape")
      ELSE [status |-> "ok", kind |-> "",
            score |-> [i \in 1..Len(ff) |-> ProjectedScore(ff, i)],
            shape |-> <<Len(ff)>>]

Compared(fm) == IF variant = "niqe" THEN DirectCompare(fm) ELSE ProjectedCompare(fm)

CompareStep ==
  /\ pc = "compare"
  /\ featmat' = IF variant = "ilniqe" THEN ClippedInPlace(featmat) ELSE featmat
  /\ result' = Compared(featmat)
  /\ model' = ModelAfterCompare(model)
  /\ pc' = IF Compared(featmat).status = "ok" THEN "done" ELSE "error"
  /\ UNCHANGED <<host, img_range, history, variant, ndim, resize, inH, inW, img_c, block_size_h,
                 block_size_w, content, shp, h, w, num_block_h, num_block_w,
                 scale, mapH, mapW, idx_h, idx_w, feat, distparam, call>>

Next ==
  \/ AssertNdim
  \/ ResizeStep
  \/ CropStep
  \/ BuildComposite
  \/ ExtractBlock
  \/ StackFeat
  \/ DownsampleStep
  \/ ConcatStep
  \/ CompareStep

Spec == Init /\ [][Next]_vars

\* ------------------------------------- the comparator on its own
CmpRows == {NanRow} \cup {Val(x) : x \in 0..MaxVal}

\* feature rows of one image: f NaN rows followed by rows of value t
FamilyRows(n) ==
  {[k \in 1..n |-> IF k <= f THEN NanRow ELSE Val(t)] : f \in 0..n, t \in 1..MaxVal}

\* one image whose rows vary freely, and batches whose first two images vary
\* over FamilyRows while the others have no NaN row
FeatureMatrices ==
  UNION {{<<rows>> : rows \in [1..n -> CmpRows]} : n \in 1..MaxRows}
  \cup
  UNION {{[i \in 1..nb |-> IF i = 1 THEN first ELSE IF i = 2 THEN second
                                     ELSE [k \in 1..n |-> Val(1)]] :
            first \in FamilyRows(n), second \in FamilyRows(n)} :
         n \in 1..MaxRows, nb \in 2..MaxBatch}

\* feature values around the clipping threshold, of both signs
OutlierRows == {NanRow, Val(1), Val(infConst + 1), Val(-(infConst + 1))}

\* one image whose features hold outliers
OutlierMatrices ==
  UNION {{<<rows>> : rows \in [1..n -> OutlierRows]} : n \in 1..MaxOutlierRows}

InitCmp ==
  /\ variant \in Variants
  /\ img_c = ChannelsOf(variant)
  /\ ndim = 4
  /\ resize = FALSE
  /\ inH = 0 /\ inW = 0
  /\ block_size_h = 2 /\ block_size_w = 2
  /\ shp = MatchingShape(variant)
  /\ \E m \in FeatureMatrices \cup (IF variant = "ilniqe" THEN OutlierMatrices ELSE {}) :
        /\ featmat = [width |-> IF variant = "niqe" THEN SimpleWidth ELSE RichWidth,
                      rows |-> m]
        /\ content = [i \in 1..Len(m) |-> DefaultContent]
        /\ model \in IF m \in OutlierMatrices THEN {DefaultModel} ELSE RefModels
  /\ pc = "compare"
  /\ h = 0 /\ w = 0
  /\ num_block_h = 0 /\ num_block_w = 0
  /\ scale = 2
  /\ mapH = 0 /\ mapW = 0
  /\ idx_h = 0 /\ idx_w = 0
  /\ feat = <<>>
  /\ distparam = <<>>
  /\ call = NoCall
  /\ result = Running
  /\ downs = 0
  /\ banks = NoBanks
  /\ InitDirectCall

NextCmp == CompareStep

SpecCmp == InitCmp /\ [][NextCmp]_vars

\* ------------------------------------------ the metric classes
Classes == {"NIQE", "IL_NIQE", "ILNIQE"}

\* the model files: the one of NIQE holds mu_prisparam and cov_prisparam, the
\* one of IL-NIQE holds templateModel
ModelFiles == {"niqe", "ilniqe"}

default_model_urls == [url |-> "niqe", niqe |-> "niqe", ilniqe |-> "ilniqe"]

\* load_file_from_url(default_model_urls[...]) of each class
DefaultPath(cls) ==
  IF cls = "ILNIQE" THEN default_model_urls.ilniqe ELSE default_model_urls.url

\* the function each class's forward calls
VariantOf(cls) == IF cls = "NIQE" THEN "niqe" ELSE "ilniqe"

\* __init__ of the three classes: pretrained_model_path as given, or the
\* class's default when it is None; only NIQE has test_y_channel
Constructed(cls, given, file, cb, ty) ==
  [cls |-> cls, given |-> given,
   path |-> IF given THEN file ELSE DefaultPath(cls),
   crop_border |-> cb, test_y_channel |-> ty]

Metrics ==
  {Constructed(cls, TRUE, file, cb, ty) :
     cls \in Classes, file \in ModelFiles, cb \in CropBorders, ty \in BOOLEAN}
  \cup
  {Constructed(cls, FALSE, "", cb, ty) :
     cls \in Classes, cb \in CropBorders, ty \in BOOLEAN}

Images == [n : 1..MaxBatch, c : {1, 3}, H : ImageSizes, W : ImageSizes]

\* the key each wrapper reads is in the file
KeysFound(cls, file) == file = VariantOf(cls)

\* dimensions of the model a file holds
FileShape(file) == MatchingShape(file)

\* to_y_channel when test_y_channel and the image has three channels
ChannelsAfterY(m, x) ==
  IF m.cls = "NIQE" /\ m.test_y_channel /\ x.c = 3 THEN 1 ELSE x.c

\* the intensity scale of the image the wrapper hands to niqe / ilniqe, X
\* being on [0,1]: calculate_ilniqe multiplies by 255; calculate_niqe leaves
\* the image as it is unless to_y_channel(img, 255, ...) is taken
RangeAfterWrapper(m, x) ==
  IF VariantOf(m.cls) = "ilniqe" THEN 0 + 1
  ELSE IF m.test_y_channel /\ x.c = 3 THEN 0 + 1
  ELSE 0

\* mutant of Trimmed: the border is removed from the top and the left only
TrimmedLeading(d, cb) == IF cb = 0 THEN d ELSE Max(0, d - cb)

\* img[..., crop_border:-crop_border, crop_border:-crop_border]
Trimmed(d, cb) == IF cb = 0 THEN d ELSE Max(0, (d - cb) - Min(cb, d))

\* block sizes niqe / ilniqe are called with: their defaults
BlockSizeOf(v) == IF v = "niqe" THEN niqe_block_size ELSE default_block_size

InitMetric ==
  /\ metric \in {m \in Metrics : m.cls # "NIQE" => ~m.test_y_channel}
  /\ X \in Images
  /\ X.H = X.W
  /\ loads = 0
  /\ calls = 0
  /\ img_range = 0
  /\ variant = VariantOf(metric.cls)
  /\ img_c = X.c
  /\ ndim = 4
  /\ resize = FALSE
  /\ inH = 0 /\ inW = 0
  /\ block_size_h = BlockSizeOf(variant) /\ block_size_w = BlockSizeOf(variant)
  /\ content = [i \in 1..X.n |-> DefaultContent]
  /\ model = DefaultModel
  /\ shp = MatchingShape(variant)
  /\ pc = "idle"
  /\ h = 0 /\ w = 0
  /\ num_block_h = 0 /\ num_block_w = 0
  /\ scale = 0
  /\ mapH = 0 /\ mapW = 0
  /\ idx_h = 0 /\ idx_w = 0
  /\ feat = <<>>
  /\ distparam = <<>>
  /\ featmat = [width |-> 0, rows |-> <<>>]
  /\ call = NoCall
  /\ result = Running
  /\ downs = 0
  /\ banks = NoBanks

\* forward of the metric instance: calculate_niqe / calculate_ilniqe up to
\* their call of niqe / ilniqe, which the pipeline actions carry out
Forward ==
  /\ pc \in {"idle", "done", "error"}
  /\ calls < MaxCalls
  /\ calls' = calls + 1
  /\ loads' = loads + 1
  /\ IF KeysFound(metric.cls, metric.path)
     THEN pc' = "assert" /\ result' = Running
     ELSE pc' = "error" /\ result' = Failed("key")
  /\ variant' = VariantOf(metric.cls)
  /\ ndim' = 4
  /\ resize' = (VariantOf(metric.cls) = "ilniqe")
  /\ inH' = Trimmed(X.H, metric.crop_border)
  /\ inW' = Trimmed(X.W, metric.crop_border)
  /\ img_c' = ChannelsAfterY(metric, X)
  /\ block_size_h' = BlockSizeOf(VariantOf(metric.cls))
  /\ block_size_w' = BlockSizeOf(VariantOf(metric.cls))
  /\ content' = [i \in 1..X.n |-> DefaultContent]
  /\ model' = DefaultModel
  /\ shp' = FileShape(metric.path)
  /\ h' = Trimmed(X.H, metric.crop_border)
  /\ w' = Trimmed(X.W, metric.crop_border)
  /\ num_block_h' = 0 /\ num_block_w' = 0
  /\ scale' = 0
  /\ mapH' = 0 /\ mapW' = 0
  /\ idx_h' = 0 /\ idx_w' = 0
  /\ feat' = <<>>
  /\ distparam' = <<>>
  /\ featmat' = [width |-> 0, rows |-> <<>>]
  /\ call' = NoCall
  /\ downs' = 0
  /\ banks' = NoBanks
  /\ img_range' = RangeAfterWrapper(metric, X)
  /\ UNCHANGED <<metric, X>>

NextMetric ==
  \/ Forward
  \/ Next

SpecMetric == InitMetric /\ [][NextMetric]_vars

\* ================================================================ claims

\* C1: the feature vector of block (idx_h, idx_w) depends only on the
\* composite-map samples inside the block's rectangle: for any other batch of
\* images that agrees with this one inside the block, compute_feature is
\* handed samples with the same statistics.
C1_BlockLocal ==
  call.made =>
    \A c2 \in [1..b -> ContentFamily] :
      (\A i \in 1..b : ContentOf(c2, i, call.ih, call.iw)
                         = ContentOf(content, i, call.ih, call.iw))
      => RegionStatOf(c2, call.region, call.s)
           = RegionStatOf(content, call.region, call.s)

\* C2: in the simple variant every call of compute_feature runs step (a)
\* only and returns 18 features.
C2_SimpleOnlyStepA ==
  (variant = "niqe" /\ call.made) =>
    (call.steps = <<"a">> /\ ~call.err /\ call.len = 18)

\* the comparator has run on the feature matrix
Compared_ == pc \in {"done", "error"} /\ featmat.rows # <<>>

\* image i scored alone against the same reference model
Alone(i) == Compared([width |-> featmat.width, rows |-> <<featmat.rows[i]>>])

\* C3: the score of image i in a batch equals its score when scored alone,
\* and the batch call raises no error when no image scored alone raises one.
C3_BatchIndependent ==
  Compared_ =>
    /\ (\A i \in 1..Len(featmat.rows) : Alone(i).status = "ok") => result.status = "ok"
    /\ result.status = "ok" =>
         \A i \in 1..Len(featmat.rows) :
           Alone(i).status = "ok" => result.score[i] = Alone(i).score[1]

\* the rows of image i in the space the comparator works in
OwnRows(i) ==
  IF variant = "niqe" THEN featmat.rows[i] ELSE final_features(featmat)[i]

\* the rows the comparator takes the sample covariance of image i from
CovRowsUsed(i) ==
  IF variant = "niqe" THEN DirectCovRows(featmat, i)
  ELSE final_features_nonan(final_features(featmat), i)

ValidInput == ndim = 4 /\ inH >= block_size_h /\ inW >= block_size_w

Finished == pc \in {"done", "error"}

\* C5: for any number of NaN rows, all of them included, a scoring call on a
\* valid image with a matching reference model returns without raising and
\* every score is finite.
C5_FiniteScore ==
  (Finished /\ ValidInput /\ shp = MatchingShape(variant)) =>
    /\ result.status = "ok"
    /\ \A i \in 1..Len(result.score) : ~result.score[i].nan

\* the crop has just been done
Cropped == pc = "build" /\ scale = 0

\* C6 as stated: the image is cropped to floor(H/bh)*bh by floor(W/bw)*bw of
\* the input height H and width W; the cropped dimensions are multiples of
\* the block size, do not exceed the input and lose less than one block.
C6_CropOfInput ==
  Cropped =>
    /\ h = (inH \div block_size_h) * block_size_h
    /\ w = (inW \div block_size_w) * block_size_w
    /\ h <= inH /\ inH - h < block_size_h
    /\ w <= inW /\ inW - w < block_size_w

\* C6 amended: the same, of the height and width the image has when it
\* reaches the crop (normalizedWidth when ilniqe resizes, else the input's).
C6_CropOfCurrent ==
  Cropped =>
    LET H == IF resize THEN normalizedWidth ELSE inH
        W == IF resize THEN normalizedWidth ELSE inW
    IN  /\ h = (H \div block_size_h) * block_size_h
        /\ w = (W \div block_size_w) * block_size_w
        /\ h % block_size_h = 0 /\ w % block_size_w = 0
        /\ h <= H /\ H - h < block_size_h
        /\ w <= W /\ W - w < block_size_w
        /\ num_block_h * block_size_h = h /\ num_block_w * block_size_w = w

C6_Witness ==
  /\ Cropped
  /\ h > 0 /\ w > 0
  /\ h < (IF resize THEN normalizedWidth ELSE inH)
  /\ w < (IF resize THEN normalizedWidth ELSE inW)

\* the composite map of the current scale is built and about to be cut
MapBuilt == pc = "extract" /\ scale \in {1, 2}

RowsOf(ih) == block_pos(ih, 0, scale)[1] .. (block_pos(ih, 0, scale)[2] - 1)
ColsOf(iw) == block_pos(0, iw, scale)[3] .. (block_pos(0, iw, scale)[4] - 1)
BlockRows == UNION {RowsOf(ih) : ih \in 0..(num_block_h - 1)}
BlockCols == UNION {ColsOf(iw) : iw \in 0..(num_block_w - 1)}

NonOverlapping ==
  /\ \A i, j \in 0..(num_block_h - 1) : i # j => RowsOf(i) \cap RowsOf(j) = {}
  /\ \A i, j \in 0..(num_block_w - 1) : i # j => ColsOf(i) \cap ColsOf(j) = {}

C9_FailFast ==
  ~ValidInput =>
    /\ scale = 0
    /\ result.status # "ok"
    /\ result.status = "error" => result.kind = "assert"

ModelMatches ==
  IF variant = "niqe"
  THEN shp.mu = featmat.width /\ shp.cov = featmat.width
  ELSE /\ shp.mean = featmat.width /\ shp.pvr = featmat.width
       /\ shp.mu = shp.pvc /\ shp.cov = shp.pvc

\* C10: a reference model whose dimensions do not match the feature matrix
\* makes the call raise a shape error; it never returns a score.
C10_ShapeMismatchRaises ==
  (Compared_ /\ ~ModelMatches) => result = Failed("shape")

Idle == pc \in {"idle", "done", "error"}

\* C12: no step of a scoring call writes to the reference model or to the
\* image: the tensor of the caller and the metric's model file stay as they
\* are, and from the call of niqe / ilniqe to its return the model's values
\* and dimensions and the image passed in stay as they are.
C12_ReadOnly ==
  [][ /\ UNCHANGED <<X, metric>>
      /\ ~Idle => UNCHANGED <<model, shp, content, inH, inW, img_c, ndim>> ]_vars

C12_Witness ==
  /\ calls = MaxCalls
  /\ pc = "done"
  /\ result.status = "ok"
  /\ Len(result.score) = X.n

\* C13: over the forward calls of one metric instance the model file is read
\* once; the second and later calls do not read it again.
C13_LoadedOnce == (pc = "done" /\ result.status = "ok") => loads <= 1

\* translations of the comparator's operands
Shifts == ((-MaxShift)..MaxShift) \ {0}

TranslateRow(r, t) == IF r.nan THEN r ELSE Val(r.v + t)

TranslateRows(rows, t) == [k \in 1..Len(rows) |-> TranslateRow(rows[k], t)]

TranslateMean(mu, t) ==
  IF mu.nan THEN mu ELSE [nan |-> FALSE, q |-> Frac(mu.q[1] + t * mu.q[2], mu.q[2])]

\* the inverse covariance the comparator used for image i
CovInv(i) == invcov_param(torch_cov(CovRowsUsed(i)).c)

\* C14: with the covariances held fixed, the distance is unchanged when the
\* sample mean (direct mode) or every reduced sample (projected mode) and the
\* reference mean are translated by the same constant.
C14_TranslationInvariant ==
  (Compared_ /\ result.status = "ok") =>
    \A i \in 1..Len(featmat.rows), t \in Shifts :
      IF variant = "niqe"
      THEN DirectDistance(TranslateMean(nanmean(featmat.rows[i]), t),
                          model.mu + t, CovInv(i)) = result.score[i]
      ELSE ProjectedDistance(TranslateRows(final_features(featmat)[i], t),
                             model.mu + t, CovInv(i)) = result.score[i]

C14_Witness ==
  /\ Compared_ /\ result.status = "ok" /\ variant = "ilniqe"
  /\ \E i \in 1..Len(featmat.rows) :
       /\ ~result.score[i].nan
       /\ result.score[i].sq[1] > 0
       /\ \E k \in 1..Len(featmat.rows[i]) : featmat.rows[i][k].nan

\* the block-truncated dimensions of scale 1
TruncatedH == num_block_h * block_size_h
TruncatedW == num_block_w * block_size_w

\* C15: scale 1 is processed before scale 2; within a scale the composite map
\* is built (ilniqe constructing the filter bank once for the scale), then
\* the features of all blocks are extracted, then the buffers are
\* downsampled; the features of scale 1 come from buffers never downsampled,
\* those of scale 2 from buffers downsampled by 2 exactly once.
C15_ScaleOrder ==
  /\ [](pc \in {"extract", "down"} =>
          /\ scale \in {1, 2}
          /\ pc = "extract" => downs = scale - 1
          /\ (pc = "extract" /\ scale = 1) => (mapH = TruncatedH /\ mapW = TruncatedW)
          /\ (pc = "extract" /\ scale = 2) =>
                /\ 2 * mapH \in {TruncatedH, TruncatedH + 1}
                /\ 2 * mapW \in {TruncatedW, TruncatedW + 1}
          /\ variant = "ilniqe" =>
                \A s \in 1..2 : banks[s] = (IF s <= scale THEN 1 ELSE 0))
  /\ [][ /\ pc = "build" => (pc' = "extract" /\ scale' = scale + 1 /\ feat' = <<>>)
         /\ pc = "extract" => (pc' \in {"extract", "down", "error"} /\ scale' = scale)
         /\ pc' = "down" => Len(feat') = num_block_h * num_block_w
         /\ pc = "down" => /\ scale' = scale
                           /\ pc' = (IF scale = 1 THEN "build" ELSE "cat") ]_vars

C15_Witness ==
  /\ variant = "ilniqe"
  /\ pc = "extract" /\ scale = 2
  /\ Len(feat) >= 2
  /\ mapH > 1 /\ mapW > 1

\* the k-th block in the order the feature matrix enumerates them:
\* column index outer, row index inner
BlockAt(k) == <<(k - 1) % num_block_h, (k - 1) \div num_block_h>>

\* the samples of block x at the current scale
RegionOfBlock(x) == SliceRegion(block_pos(x[1], x[2], scale), mapH, mapW)

\* the feature matrix is built
MatrixBuilt == pc \in {"compare", "done"} /\ distparam # <<>>

\* C16: at either scale the k-th row holds the features of the k-th block,
\* column index outer and row index inner; the feature matrix has one row per
\* block, its width is the sum of the two per-scale lengths and its k-th row
\* is the scale-1 row of block k followed by the scale-2 row of block k.
C16_FeatureMatrixLayout ==
  /\ pc = "extract" =>
       \A k \in 1..Len(feat) :
         feat[k].rows = RegionStat(RegionOfBlock(BlockAt(k)), scale)
  /\ MatrixBuilt =>
       /\ featmat.width = distparam[1].width + distparam[2].width
       /\ \A i \in 1..b :
            /\ Len(featmat.rows[i]) = num_block_h * num_block_w
            /\ Len(distparam[1].rows[i]) = num_block_h * num_block_w
            /\ Len(distparam[2].rows[i]) = num_block_h * num_block_w
            /\ \A k \in 1..(num_block_h * num_block_w) :
                 featmat.rows[i][k]
                   = CatRow(distparam[1].rows[i][k], distparam[2].rows[i][k])

C16_Witness ==
  /\ MatrixBuilt
  /\ num_block_h >= 2 /\ num_block_w >= 2
  /\ \E i \in 1..b : featmat.rows[i][2] # featmat.rows[i][3]

\* the covariance with every NaN deviation set to 0 after the feature is
\* centered on its NaN-ignoring mean
PostCenteringCov(rows) ==
  LET mu == nanmean(rows)
      CenteredSquare(x) == Square(x * mu.q[2] - mu.q[1])
  IN  Frac(SumSeq(SeqMap(CenteredSquare, Numbers(rows))),
           mu.q[2] * mu.q[2] * (Len(rows) - 1))

BlockDeviation(rows, k, m) ==
  IF rows[k].nan
  THEN <<Abs(nanmean(rows).q[1] - m * nanmean(rows).q[2]), nanmean(rows).q[2]>>
  ELSE <<Abs(rows[k].v - m), 1>>

RECURSIVE SumDeviations(_, _, _)
SumDeviations(rows, k, m) ==
  IF k = 0 THEN <<0, 1>>
  ELSE AddQ(BlockDeviation(rows, k, m), SumDeviations(rows, k - 1, m))

\* C18: in projected mode the score of an image is the mean of the distances
\* of all of its blocks, those excluded from the covariance too, each NaN
\* feature replaced by the NaN-excluded mean of the feature over the blocks.
C18_MeanOfAllBlocks ==
  (Compared_ /\ result.status = "ok" /\ variant = "ilniqe") =>
    \A i \in 1..Len(featmat.rows) :
      LET rows == final_features(featmat)[i]
          total == SumDeviations(rows, Len(rows), model.mu)
      IN  result.score[i] =
            (IF nanmean(rows).nan THEN NanScore
             ELSE Score(CovInv(i), total[1], total[2] * Len(rows)))

C18_Witness ==
  /\ Compared_ /\ result.status = "ok" /\ variant = "ilniqe"
  /\ \E i \in 1..Len(featmat.rows) :
       LET rows == final_features(featmat)[i]
       IN  /\ \E k \in 1..Len(rows) : rows[k].nan
           /\ \E k \in 1..Len(rows) : ~rows[k].nan /\ rows[k].v < model.mu
           /\ \E k \in 1..Len(rows) : ~rows[k].nan /\ rows[k].v > model.mu

\* C19: in projected mode the feature matrix is clipped before the projection:
\* afterwards no value exceeds infConst, every value that did not exceed it,
\* negative ones included, is unchanged, NaN stays NaN, and the projection is
\* taken of the clipped values.
C19_ClipBeforeProject ==
  [][ (pc = "compare" /\ variant = "ilniqe") =>
        /\ \A i \in 1..Len(featmat.rows) : \A k \in 1..Len(featmat.rows[i]) :
             LET x == featmat.rows[i][k]
                 y == featmat'.rows[i][k]
             IN  /\ x.nan <=> y.nan
                 /\ ~x.nan => /\ y.v <= infConst
                              /\ x.v <= infConst => y.v = x.v
                              /\ x.v > infConst => y.v = infConst
        /\ final_features(featmat)
             = [i \in 1..Len(featmat.rows) |-> SeqMap(Project, featmat'.rows[i])] ]_vars

C19_Witness ==
  /\ Compared_ /\ variant = "ilniqe"
  /\ \E k \in 1..Len(featmat.rows[1]) : featmat.rows[1][k] = Val(infConst)
  /\ \E k \in 1..Len(featmat.rows[1]) :
       ~featmat.rows[1][k].nan /\ featmat.rows[1][k].v < -infConst

\* the channel numbers at which a group of the composite map starts or ends
GroupBoundaries ==
  {SumSeq(SubSeq(ChannelGroups, 1, k)) : k \in 0..Len(ChannelGroups)}

\* C20: the composite map of ilniqe has 109 channels in the groups 1, 3, 3, 6,
\* 24, 48, 24; the ranges compute_feature reads cover every channel once and
\* start and end where groups do; a block has 18 + 6 + 6 + 156 + 48 = 234
\* features per scale and 468 over the two scales.
C20_ChannelLayout ==
  (variant = "ilniqe" /\ call.made) =>
    /\ ChannelGroups = <<1, 3, 3, 6, 24, 48, 24>>
    /\ CompositeChannels = 109
    /\ FeatureSlices[1][1] = 0
    /\ FeatureSlices[Len(FeatureSlices)][2] = CompositeChannels
    /\ \A k \in 1..(Len(FeatureSlices) - 1) : FeatureSlices[k][2] = FeatureSlices[k + 1][1]
    /\ \A k \in 1..Len(FeatureSlices) :
         FeatureSlices[k][1] \in GroupBoundaries /\ FeatureSlices[k][2] \in GroupBoundaries
    /\ \A k \in 1..3 : NominalChannels(k) = ChannelGroups[k]
    /\ NominalChannels(4) = ChannelGroups[4] + ChannelGroups[5] + ChannelGroups[6]
    /\ NominalChannels(5) = ChannelGroups[7]
    /\ ~call.err
    /\ call.steps = <<"a", "b", "c", "d", "e">>
    /\ StepFeatures(CompositeChannels) = <<18, 6, 6, 156, 48>>
    /\ call.len = 234
    /\ featmat.width \in {0, 468}

C20_Witness ==
  /\ variant = "ilniqe"
  /\ call.made /\ call.s = 2
  /\ call.len = 234
  /\ featmat.width = 468

\* C21: whatever the channels of X and the setting of test_y_channel, the
\* image a wrapper's call hands to block feature extraction is on the
\* [0,255] scale: the rescaling by 255 has been applied exactly once.
C21_RescaledOnce ==
  (metric # NoMetric /\ call.made) => img_range = 1

\* the height and width left of X when a border of c pixels is removed from
\* each of the four edges
BorderRemoved(d, c) == d - 2 * c

\* a forward call has loaded its model and called niqe / ilniqe
Called == metric # NoMetric /\ pc # "idle" /\ result # Failed("key")

\* C22: the image niqe / ilniqe receive from a wrapper is X without a border
\* of crop_border pixels on each edge, X itself when crop_border is 0; the
\* trimming is done when the call starts, before the resize, the truncation
\* to block multiples and any feature extraction, which work on the trimmed
\* image.
C22_TrimmedFirst ==
  Called =>
    /\ inH = BorderRemoved(X.H, metric.crop_border)
    /\ inW = BorderRemoved(X.W, metric.crop_border)
    /\ metric.crop_border = 0 => (inH = X.H /\ inW = X.W)
    /\ pc = "assert" =>
         /\ h = inH /\ w = inW
         /\ num_block_h = 0 /\ num_block_w = 0
         /\ scale = 0 /\ downs = 0 /\ ~call.made
    /\ (pc \notin {"assert", "resize", "crop"} /\ result.status # "error") =>
         /\ num_block_h = (IF resize THEN normalizedWidth ELSE inH) \div block_size_h
         /\ num_block_w = (IF resize THEN normalizedWidth ELSE inW) \div block_size_w

C22_Witness ==
  /\ Called
  /\ metric.crop_border > 0
  /\ pc = "done"
  /\ inH < X.H /\ inH > 0

\* C23: IL_NIQE and ILNIQE constructed without a model path are bound to the
\* IL-NIQE model file, and their forward calls find its fields.
C23_RichDefault ==
  ( /\ metric # NoMetric
    /\ VariantOf(metric.cls) = "ilniqe"
    /\ ~metric.given
    /\ calls > 0 ) =>
      /\ metric.path = default_model_urls.ilniqe
      /\ KeysFound(metric.cls, metric.path)
      /\ result # Failed("key")

====
